---- MODULE Spec2Model ----
(***************************************************************************)
(* Cascade: the board / gravity / evaluation engine (Game, Board, Input).  *)
(*                                                                         *)
(* The triangle keeps the source's shape, ROW_WIDTHS[r] = NUM_ROWS + 1 - r *)
(* (7,6,5,4,3,2 for the 6 rows of the game), at a reduced number of rows.  *)
(* Timers (setTimeout / setInterval / requestAnimationFrame) are pending   *)
(* callbacks that may fire in any order; a tile whose nextFallAt is set is *)
(* due in a frame or not (the frame's input).                              *)
(* A Tile object is a record stored in the cell that holds it; the tile    *)
(* that Input.drag refers to carries mark = TRUE, so the reference follows *)
(* the object through every move; once the object is in no cell the drag   *)
(* keeps the record itself (drag.tile).                                    *)
(***************************************************************************)
EXTENDS Integers, Sequences, FiniteSets, TLC

\* ── Bounds ────────────────────────────────────────────────────
NUM_ROWS == 3            \* rows of the triangle (6 in the game)
ROUND_DURATION_S == 2    \* seconds of a round (120 in the game)
MaxScore == 4            \* no further evaluation is explored once score >= MaxScore
MaxDrags == 1            \* drags (tiles picked up) explored per round
MaxWordLen == 7          \* longest word drawn in SpecScore

\* ── Board constants (types.ts) ────────────────────────────────
ROW_WIDTHS(r) == NUM_ROWS + 1 - r
Rows == 0 .. (NUM_ROWS - 1)
Cols(r) == 0 .. (ROW_WIDTHS(r) - 1)
Cells == { p \in (Rows \X (0 .. NUM_ROWS)) : p[2] < ROW_WIDTHS(p[1]) }

RECURSIVE SumWidths(_)
SumWidths(r) == IF r < 0 THEN 0 ELSE ROW_WIDTHS(r) + SumWidths(r - 1)
TOTAL_POSITIONS == SumWidths(NUM_ROWS - 1)

\* Row-major list of the cells of rows lo..hi (the order of the source's
\* nested for-loops over r and c).
RECURSIVE RowCells(_, _)
RowCells(r, c) == IF c >= ROW_WIDTHS(r) THEN << >>
                  ELSE << <<r, c>> >> \o RowCells(r, c + 1)
RECURSIVE RowMajor(_, _)
RowMajor(lo, hi) == IF lo > hi THEN << >>
                    ELSE RowCells(lo, 0) \o RowMajor(lo + 1, hi)

\* ── Tiles ─────────────────────────────────────────────────────
\* letter: "A".."Z" or "Qu"; fall: nextFallAt is defined; mark: the object
\* Input.drag.tile refers to.
NoPos == <<0 - 1, 0 - 1>>
NoTile == [letter |-> "", settled |-> FALSE, fall |-> FALSE, pos |-> NoPos, mark |-> FALSE]

createTile(letter, pos) ==
  [letter |-> letter, settled |-> FALSE, fall |-> FALSE, pos |-> pos, mark |-> FALSE]

\* ── Board (board.ts) ──────────────────────────────────────────
EmptyGrid == [p \in Cells |-> NoTile]

get(g, pos) == IF pos \in Cells THEN g[pos] ELSE NoTile
isEmpty(g, pos) == get(g, pos) = NoTile
set(g, pos, tile) == [g EXCEPT ![pos] = tile]
place(g, tile, pos) == set(g, pos, [tile EXCEPT !.pos = pos])
remove(g, tile) == set(g, tile.pos, NoTile)
filledCount(g) == Cardinality({p \in Cells : g[p] # NoTile})
isFull(g) == filledCount(g) = TOTAL_POSITIONS

RECURSIVE emptyFrom(_, _, _)
emptyFrom(g, row, c) ==
  IF c >= ROW_WIDTHS(row) THEN << >>
  ELSE (IF g[<<row, c>>] = NoTile THEN <<c>> ELSE << >>) \o emptyFrom(g, row, c + 1)
emptyInRow(g, row) == emptyFrom(g, row, 0)

\* A tile is covered when one of the two positions above it, in the wider
\* row directly above, is occupied; hand tiles are never covered.
isCovered(g, pos) ==
  /\ pos[1] > 0
  /\ \/ ~isEmpty(g, <<pos[1] - 1, pos[2]>>)
     \/ ~isEmpty(g, <<pos[1] - 1, pos[2] + 1>>)

\* Fall targets with the right candidate first.
fallTargetsRightFirst(pos) ==
  IF pos[1] >= NUM_ROWS - 1 THEN << >>
  ELSE LET nextRowWidth == ROW_WIDTHS(pos[1] + 1)
           downLeft == pos[2] - 1
           downRight == pos[2]
       IN (IF downRight >= 0 /\ downRight < nextRowWidth
           THEN << <<pos[1] + 1, downRight>> >> ELSE << >>)
          \o (IF downLeft >= 0 /\ downLeft < nextRowWidth
              THEN << <<pos[1] + 1, downLeft>> >> ELSE << >>)

\* fallTargets (types.ts): the in-range ones of down-left (r+1, c-1) and
\* down-right (r+1, c), in that order; none for the last row.
fallTargets(pos) ==
  IF pos[1] >= NUM_ROWS - 1 THEN << >>
  ELSE LET nextRowWidth == ROW_WIDTHS(pos[1] + 1)
           downLeft == pos[2] - 1
           downRight == pos[2]
       IN (IF downLeft >= 0 /\ downLeft < nextRowWidth
           THEN << <<pos[1] + 1, downLeft>> >> ELSE << >>)
          \o (IF downRight >= 0 /\ downRight < nextRowWidth
              THEN << <<pos[1] + 1, downRight>> >> ELSE << >>)

\* A loop that visits the rows top to bottom.
RECURSIVE applyOrderTopDown(_)
applyOrderTopDown(r) ==
  IF r < 0 THEN << >> ELSE applyOrderTopDown(r - 1) \o RowCells(r, 0)

\* The cells in the order Board.applyGravity visits them: "for (let r =
\* NUM_ROWS - 2; r >= 0; r--)", each row left to right.
RECURSIVE applyOrder(_)
applyOrder(r) == IF r < 0 THEN << >> ELSE RowCells(r, 0) \o applyOrder(r - 1)

\* The loop body of Board.applyGravity for the tile in cell: it moves to its
\* first empty fall target, unsettled, or is settled when it has none.
applyTile(st, cell) ==
  LET tile == st.g[cell]
      targets == fallTargets(tile.pos)
      free == SelectSeq(targets, LAMBDA t : isEmpty(st.g, t))
  IN IF tile = NoTile THEN st
     ELSE IF free # << >>
     THEN [g |-> set(set(st.g, tile.pos, NoTile), free[1],
                     [tile EXCEPT !.pos = free[1], !.settled = FALSE]),
           moved |-> TRUE]
     ELSE IF ~tile.settled
     THEN [st EXCEPT !.g = set(st.g, cell, [tile EXCEPT !.settled = TRUE])]
     ELSE st

RECURSIVE applyLoop(_, _)
applyLoop(st, cells) ==
  IF cells = << >> THEN st ELSE applyLoop(applyTile(st, Head(cells)), Tail(cells))

\* "Bottom row tiles are always settled if present".
applyBottom(g) ==
  [p \in Cells |->
     IF p[1] = NUM_ROWS - 1 /\ g[p] # NoTile THEN [g[p] EXCEPT !.settled = TRUE] ELSE g[p]]

\* Board.applyGravity: the board after one step, and anyMoved.
applyGravity(g) ==
  LET st == applyLoop([g |-> g, moved |-> FALSE], applyOrder(NUM_ROWS - 2))
  IN [g |-> applyBottom(st.g), moved |-> st.moved]

\* Board.readRow: the letters of the row left to right, upper-cased; the
\* empty word when a cell of the row is empty.  A word is the sequence of
\* its characters; the "Qu" tile upper-cases to the two characters Q, U.
toUpperCase(letter) == IF letter = "Qu" THEN <<"Q", "U">> ELSE <<letter>>
RECURSIVE readFrom(_, _, _)
readFrom(g, row, c) ==
  IF c >= ROW_WIDTHS(row) THEN << >>
  ELSE toUpperCase(g[<<row, c>>].letter) \o readFrom(g, row, c + 1)
readRow(g, row) ==
  IF \E c \in Cols(row) : g[<<row, c>>] = NoTile THEN << >> ELSE readFrom(g, row, 0)

\* ── Scoring (types.ts, board.ts) ──────────────────────────────
SCRABBLE_VALUES(ch) ==
  CASE ch \in {"A", "E", "I", "L", "N", "O", "R", "S", "T", "U"} -> 1
    [] ch \in {"D", "G"} -> 2
    [] ch \in {"B", "C", "M", "P"} -> 3
    [] ch \in {"F", "H", "V", "W", "Y"} -> 4
    [] ch = "K" -> 5
    [] ch \in {"J", "X"} -> 8
    [] ch \in {"Q", "Z"} -> 10
    [] OTHER -> 0

\* LENGTH_MULTIPLIERS, doubled to stay in the integers (1.5 is 3 halves);
\* a length with no entry takes the source's "?? 1".
LENGTH_MULTIPLIERS_x2(n) ==
  CASE n = 2 -> 2 [] n = 3 -> 3 [] n = 4 -> 4 [] n = 5 -> 6 [] n = 6 -> 8 [] n = 7 -> 12
    [] OTHER -> 2

RECURSIVE letterSum(_)
letterSum(word) ==
  IF word = << >> THEN 0 ELSE SCRABBLE_VALUES(Head(word)) + letterSum(Tail(word))

\* A scorer that truncates instead of rounding.
scoreWordTruncated(w) == (letterSum(w) * LENGTH_MULTIPLIERS_x2(Len(w))) \div 2

\* Math.round(sum * mult): floor(sum * mult + 1/2).
scoreWord(w) == (letterSum(w) * LENGTH_MULTIPLIERS_x2(Len(w)) + 1) \div 2

\* ── Dictionary (dictionary.ts) ────────────────────────────────
\* The word list is data outside the source: a few words of the ENABLE
\* list over the letters the model deals, upper-cased as loadDictionary does.
Words == { <<"A", "A">>, <<"A", "T">>, <<"T", "A">>, <<"A", "E">>,
           <<"T", "E", "A">>, <<"E", "A", "T">>, <<"A", "T", "E">>, <<"E", "T", "A">>,
           <<"T", "E", "A", "T">>, <<"E", "T", "A", "S">>,
           <<"Q", "U", "A">>, <<"A", "Q", "U", "A">>, <<"A", "Q", "U", "A", "E">> }
isWord(loaded, word) == IF ~loaded THEN FALSE ELSE word \in Words

\* ── Layout and coordinate conversions (types.ts) ──────────────
\* One layout of computeLayout: tilePad = tileSize * 0.1, board origin 0,0.
TileSize == 20
TilePad == 2
BoardX == 0
BoardY == 0
DRAG_THRESHOLD == 10
Row0Width == ROW_WIDTHS(0) * TileSize + (ROW_WIDTHS(0) - 1) * TilePad
RowX(row) ==
  BoardX + (Row0Width - (ROW_WIDTHS(row) * TileSize + (ROW_WIDTHS(row) - 1) * TilePad)) \div 2
RowY(row) == BoardY + row * (TileSize + TilePad)

gridToPixel(pos) == <<RowX(pos[1]) + pos[2] * (TileSize + TilePad), RowY(pos[1])>>

pixelToGrid(px, py) ==
  LET hits == { p \in Cells :
                  /\ py >= RowY(p[1]) /\ py < RowY(p[1]) + TileSize
                  /\ px >= RowX(p[1])
                  /\ px < RowX(p[1]) + ROW_WIDTHS(p[1]) * TileSize + (ROW_WIDTHS(p[1]) - 1) * TilePad
                  /\ p[2] = (px - RowX(p[1])) \div (TileSize + TilePad)
                  /\ px >= gridToPixel(p)[1] /\ px < gridToPixel(p)[1] + TileSize }
  IN IF hits = {} THEN NoPos ELSE CHOOSE p \in hits : \A q \in hits : p[1] <= q[1]

\* ── The conversions under any layout ──────────────────────────
\* A layout L is the LayoutMetrics record.  Coordinates are kept doubled
\* (x2 = 2 * x): rowOffsetX = (row0Width - thisRowWidth) / 2 may be a half.
rowWidthPx(L, row) == ROW_WIDTHS(row) * L.tileSize + (ROW_WIDTHS(row) - 1) * L.tilePad
rowX2(L, row) == 2 * L.boardX + (rowWidthPx(L, 0) - rowWidthPx(L, row))
rowY2(L, row) == 2 * (L.boardY + row * (L.tileSize + L.tilePad))

\* gridToPixel(pos, layout), doubled.
gridToPixel2(L, pos) ==
  << rowX2(L, pos[1]) + 2 * pos[2] * (L.tileSize + L.tilePad), rowY2(L, pos[1]) >>

\* A column test that takes the tile for hit wherever the pixel is in its pitch.
onTileUnchecked(L, row, col, px2) == col < ROW_WIDTHS(row)

\* "Verify we're actually on the tile, not in the gap".
onTile(L, row, col, px2) ==
  LET tileX2 == rowX2(L, row) + 2 * col * (L.tileSize + L.tilePad)
  IN px2 >= tileX2 /\ px2 < tileX2 + 2 * L.tileSize /\ col < ROW_WIDTHS(row)

\* pixelToGrid(px, py, layout) from row on, on the doubled pixel.
RECURSIVE pixelToGridFrom(_, _, _, _)
pixelToGridFrom(L, px2, py2, row) ==
  IF row >= NUM_ROWS THEN NoPos
  ELSE IF /\ py2 >= rowY2(L, row) /\ py2 < rowY2(L, row) + 2 * L.tileSize
          /\ px2 >= rowX2(L, row) /\ px2 < rowX2(L, row) + 2 * rowWidthPx(L, row)
          /\ onTile(L, row, (px2 - rowX2(L, row)) \div (2 * (L.tileSize + L.tilePad)), px2)
       THEN << row, (px2 - rowX2(L, row)) \div (2 * (L.tileSize + L.tilePad)) >>
       ELSE pixelToGridFrom(L, px2, py2, row + 1)
pixelToGrid2(L, px2, py2) == pixelToGridFrom(L, px2, py2, 0)

\* Input.findNearestEmpty: the empty cell whose centre is nearest to (px, py)
\* and nearer than 1.5 tile sizes, the first such in row-major order; NoPos
\* when there is none.  Distances are compared squared.
Dist2(px, py, pos) ==
  LET cx == gridToPixel(pos)[1] + TileSize \div 2
      cy == gridToPixel(pos)[2] + TileSize \div 2
  IN (px - cx) * (px - cx) + (py - cy) * (py - cy)
RECURSIVE nearestFrom(_, _, _, _, _, _)
nearestFrom(g, px, py, cells, best, bestDist2) ==
  IF cells = << >> THEN best
  ELSE LET pos == Head(cells)
           d2 == Dist2(px, py, pos)
       IN IF /\ isEmpty(g, pos)
             /\ (bestDist2 < 0 \/ d2 < bestDist2)
             /\ 4 * d2 < 9 * TileSize * TileSize
          THEN nearestFrom(g, px, py, Tail(cells), pos, d2)
          ELSE nearestFrom(g, px, py, Tail(cells), best, bestDist2)
findNearestEmpty(g, px, py) ==
  nearestFrom(g, px, py, RowMajor(0, NUM_ROWS - 1), NoPos, 0 - 1)

\* Game.findLeftmostEmpty: the first empty cell of rows 1.. in row-major order.
RECURSIVE firstEmpty(_, _)
firstEmpty(g, cells) ==
  IF cells = << >> THEN NoPos
  ELSE IF isEmpty(g, Head(cells)) THEN Head(cells) ELSE firstEmpty(g, Tail(cells))

\* A search that starts at the hand row.
findLeftmostEmptyFromHand(g) == firstEmpty(g, RowMajor(0, NUM_ROWS - 1))

findLeftmostEmpty(g) == firstEmpty(g, RowMajor(1, NUM_ROWS - 1))

\* ── State ─────────────────────────────────────────────────────
VARIABLES
  grid,            \* Board.grid
  phase,           \* Game.phase
  score,           \* Game.score
  timeLeft,        \* Game.timeLeft
  clearResults,    \* Game.clearResults
  isPerfectBoard,  \* Game.isPerfectBoard
  highScores,      \* Game.highScores
  refillTimers,    \* Game.refillTimers: the hand columns the Map has a timeout handle for
  refillPending,   \* per hand column, the refill timeouts set and neither fired nor cleared
  roundTimer,      \* Game.roundTimer # null
  intervals,       \* countdown intervals (setInterval) that are running
  cascadeIndex,    \* Game.cascadeIndex
  cascadeTimer,    \* the pending intro timeout: "none", "step" or "end"
  clearTimer,      \* the clear-display timeout of evaluateBoard is pending
  enabled,         \* Input.enabled
  drag,            \* Input.drag
  dropTarget,      \* Input.dropTarget
  isDragging,      \* Input.isDragging
  pointerStart,    \* Input.pointerStart
  dictLoaded,      \* dictionary.ts: wordSet # null
  drags,           \* tiles picked up by a drag in this round (bounded by MaxDrags)
  lateLoad,        \* the word list arrived while a full board was waiting (SpecLateDict)
  wordScore,       \* the result of Board.scoreWord(word), -1 before the call (SpecScore)
  rowPoints,       \* the score evaluateBoard records for a row reading word, -1 before (SpecScore)
  word,            \* the argument of Board.scoreWord (SpecScore)
  probe            \* a call of pixelToGrid: its layout, its pixel and its result (SpecLayout)

vars == << grid, phase, score, timeLeft, clearResults, isPerfectBoard, refillTimers, refillPending,
           highScores,
           roundTimer, intervals, cascadeIndex, cascadeTimer, clearTimer, enabled,
           drag, dropTarget, isDragging, pointerStart, dictLoaded, drags, lateLoad, wordScore,
           rowPoints, word, probe >>

envVars == << dictLoaded, lateLoad, wordScore, rowPoints, word >>
gameVars == << grid, phase, score, timeLeft, clearResults, isPerfectBoard, refillTimers, refillPending,
               refillPending,
               roundTimer, intervals, cascadeIndex, cascadeTimer, clearTimer, enabled >>
inputVars == << drag, dropTarget, isDragging, pointerStart >>

\* Letters the letter generator deals in the model (PRNG.nextLetter draws
\* from the 26 entries of LETTER_FREQS).
HandLetters == {"A"}
CascadeLetters == <<"C", "A", "S", "C", "A", "D", "E">>

\* Pointer positions the model explores: the centres of two hand cells and
\* of a bottom-row cell, and a point off the board.
Centre(pos) == <<gridToPixel(pos)[1] + TileSize \div 2, gridToPixel(pos)[2] + TileSize \div 2>>
FarPoint == <<0 - 10 * TileSize, 0 - 10 * TileSize>>
PointerCells == {<<0, 0>>, <<0, 1>>, <<NUM_ROWS - 1, 1>>}
PointerSpots == {Centre(p) : p \in PointerCells} \cup {FarPoint}
NoPoint == <<0 - 1>>

\* No call of pixelToGrid is under study.
NoProbe == << >>

\* Input.drag: null, or the DragState.  The tile it refers to is the marked
\* tile of the grid while that object is in a cell, and drag.tile otherwise.
NoDrag == [active |-> FALSE]
DragCell(g) == IF \E p \in Cells : g[p].mark THEN CHOOSE p \in Cells : g[p].mark ELSE NoPos
DragTile(g, d) == IF DragCell(g) # NoPos THEN g[DragCell(g)] ELSE d.tile
Unmark(g) == [p \in Cells |-> [g[p] EXCEPT !.mark = FALSE]]

\* A clear that leaves every tile where it is.
clearNothing(g) == g

\* Board.clearAll, and what is left of the drag's reference after it: the
\* object is in no cell any more and keeps the pos it had.
clearAll(g) == EmptyGrid

DragAfterClear(g, d) ==
  IF d # NoDrag /\ DragCell(g) # NoPos
  THEN [d EXCEPT !.tile = [g[DragCell(g)] EXCEPT !.mark = FALSE]] ELSE d

\* ── Game: high scores ─────────────────────────────────────────
\* Game.MAX_SCORES (10 in the game).
MAX_SCORES == 2

\* Array.slice(0, n).
slice(list, n) == SubSeq(list, 1, IF Len(list) < n THEN Len(list) ELSE n)

\* One step of "sort((a, b) => b - a)": x put into a descending list.
insertDesc(list, x) ==
  LET k == Cardinality({ i \in 1 .. Len(list) : list[i] >= x })
  IN SubSeq(list, 1, k) \o << x >> \o SubSeq(list, k + 1, Len(list))

\* "this.highScores.sort((a, b) => b - a)".
RECURSIVE sortDesc(_)
sortDesc(list) ==
  IF list = << >> THEN << >> ELSE insertDesc(sortDesc(Tail(list)), Head(list))

\* Game.loadHighScores on the list the storage holds (every entry a number).
loadHighScores(stored) == slice(stored, MAX_SCORES)

\* A save that pushes the score and does not sort.
saveScoreUnsorted(list, s) ==
  IF s <= 0 THEN list ELSE slice(Append(list, s), MAX_SCORES)

\* Game.saveScore(s) on the list: the list afterwards.
saveScore(list, s) ==
  IF s <= 0 THEN list ELSE slice(sortDesc(Append(list, s)), MAX_SCORES)

\* The storage of a player whose earlier sessions filled the list with scores
\* above any a round of Spec reaches (SpecRounds draws the other lists).
TopScore == 99
TopScores == [i \in 1 .. MAX_SCORES |-> TopScore]

\* The Game, Board and Input objects after construction (main.ts builds them
\* once loadDictionary has resolved or failed).
InitGame ==
  /\ grid = EmptyGrid
  /\ phase = "start"
  /\ score = 0
  /\ timeLeft = ROUND_DURATION_S
  /\ clearResults = << >>
  /\ isPerfectBoard = FALSE
  /\ refillTimers = {}
  /\ refillPending = [c \in Cols(0) |-> 0]
  /\ roundTimer = FALSE
  /\ intervals = 0
  /\ cascadeIndex = 0
  /\ cascadeTimer = "none"
  /\ clearTimer = FALSE
  /\ enabled = FALSE
  /\ drag = NoDrag
  /\ dropTarget = NoPos
  /\ isDragging = FALSE
  /\ pointerStart = NoPoint
  /\ drags = 0
  /\ lateLoad = FALSE
  /\ wordScore = 0 - 1
  /\ rowPoints = 0 - 1

Init ==
  /\ InitGame
  /\ highScores = loadHighScores(TopScores)
  /\ probe = NoProbe
  /\ dictLoaded \in BOOLEAN
  /\ word = << >>

\* ── Game: timers ──────────────────────────────────────────────
\* "this.refillTimers.forEach(t => clearTimeout(t))": the timeout each handle
\* of the Map refers to is cleared.
cancelRefills(pending, timers) ==
  [c \in Cols(0) |-> IF c \in timers /\ pending[c] > 0 THEN pending[c] - 1 ELSE pending[c]]

\* A stop that forgets the countdown interval without clearing it.
stopTimersKeepInterval(timers, pending) ==
  /\ roundTimer' = FALSE
  /\ intervals' = intervals
  /\ cascadeTimer' = "none"
  /\ refillTimers' = {}
  /\ refillPending' = cancelRefills(pending, timers)

\* Game.stopTimers: the tracked countdown interval, the intro timeout and
\* every refill timeout of the Map are cancelled; timers and pending are the
\* Map and the pending timeouts at the call.
stopTimers(timers, pending) ==
  /\ roundTimer' = FALSE
  /\ intervals' = IF roundTimer THEN intervals - 1 ELSE intervals
  /\ cascadeTimer' = "none"
  /\ refillTimers' = {}
  /\ refillPending' = cancelRefills(pending, timers)

\* A countdown that is never started.
startCountdownNever == UNCHANGED << roundTimer, intervals >>

\* window.setInterval(() => this.updateTimer(), 1000) assigned to roundTimer.
startCountdown ==
  /\ roundTimer' = TRUE
  /\ intervals' = intervals + 1

\* Game.endRound.
endRound ==
  /\ stopTimers(refillTimers, refillPending)
  /\ phase' = "roundEnd"
  /\ enabled' = FALSE
  /\ highScores' = saveScore(highScores, score)

\* ── Game: hand ────────────────────────────────────────────────
\* Game.fillHand: every empty hand slot gets a new settled tile.
fillHand(g, letters) ==
  [p \in Cells |->
     IF p[1] = 0 /\ g[p] = NoTile
     THEN [createTile(letters[p[2]], p) EXCEPT !.settled = TRUE]
     ELSE g[p]]

\* ── Game: board evaluation ────────────────────────────────────
\* "const score = valid ? Board.scoreWord(word) : 0;"
rowScore(valid, w) == IF valid THEN scoreWord(w) ELSE 0

\* A row loop that scores the word whether or not it is valid.
RowResultScoreAlways(g, r, loaded) ==
  [row |-> r, word |-> readRow(g, r), valid |-> isWord(loaded, readRow(g, r)),
   score |-> scoreWord(readRow(g, r))]

RowResult(g, r, loaded) ==
  LET w == readRow(g, r)
      valid == isWord(loaded, w)
  IN [row |-> r, word |-> w, valid |-> valid, score |-> rowScore(valid, w)]

\* A row loop that leaves out the hand row.
RECURSIVE rowResultsSkipHand(_, _, _)
rowResultsSkipHand(g, r, loaded) ==
  IF r >= NUM_ROWS THEN << >>
  ELSE (IF r = 0 \/ Len(readRow(g, r)) = 0 THEN << >> ELSE << RowResult(g, r, loaded) >>)
       \o rowResultsSkipHand(g, r + 1, loaded)

RECURSIVE rowResults(_, _, _)
rowResults(g, r, loaded) ==
  IF r >= NUM_ROWS THEN << >>
  ELSE (IF Len(readRow(g, r)) = 0 THEN << >> ELSE << RowResult(g, r, loaded) >>)
       \o rowResults(g, r + 1, loaded)

RECURSIVE sumValid(_)
sumValid(results) ==
  IF results = << >> THEN 0
  ELSE (IF Head(results).valid /\ Head(results).score > 0 THEN Head(results).score ELSE 0)
       + sumValid(Tail(results))

allValid(results) ==
  Len(results) > 0 /\ \A i \in 1 .. Len(results) : results[i].valid

\* A credit that deducts a point per evaluation.
creditedLessOne(results) == sumValid(results) - 1

\* A credit without the perfect-board bonus.
creditedNoBonus(results) == sumValid(results)

\* The amount evaluateBoard adds to score: the perfect board gets the 2x bonus.
credited(results) ==
  IF allValid(results) /\ sumValid(results) > 0
  THEN 2 * sumValid(results) ELSE sumValid(results)

\* An evaluation that does not wait for the word list.
dictionaryAssumedReady(loaded) == TRUE

\* "if (!isDictionaryLoaded()) return;"
dictionaryReady(loaded) == loaded

\* Game.evaluateBoard on board g; timers and pending are the Map and the
\* pending refill timeouts at the call.
evaluateBoard(g, timers, pending) ==
  IF ~dictionaryReady(dictLoaded)
  THEN /\ refillTimers' = timers
       /\ refillPending' = pending
       /\ UNCHANGED << phase, enabled, roundTimer, intervals, cascadeTimer,
                       clearResults, isPerfectBoard, score, clearTimer >>
  ELSE /\ score < MaxScore
       /\ phase' = "clearing"
       /\ enabled' = FALSE
       /\ stopTimers(timers, pending)
       /\ clearResults' = rowResults(g, 0, dictLoaded)
       /\ isPerfectBoard' = allValid(rowResults(g, 0, dictLoaded))
       /\ score' = score + credited(rowResults(g, 0, dictLoaded))
       /\ clearTimer' = TRUE

\* The setTimeout callback of evaluateBoard, after the display delay.
ClearTimeout ==
  /\ clearTimer
  /\ clearTimer' = FALSE
  /\ \E letters \in [Cols(0) -> HandLetters] :
       grid' = fillHand(clearAll(grid), letters)
  /\ drag' = DragAfterClear(grid, drag)
  /\ clearResults' = << >>
  /\ IF timeLeft > 0
     THEN /\ phase' = "playing"
          /\ enabled' = TRUE
          /\ startCountdown
          /\ UNCHANGED << cascadeTimer, refillTimers, refillPending, highScores >>
     ELSE endRound
  /\ lateLoad' = FALSE
  /\ UNCHANGED << score, timeLeft, isPerfectBoard, cascadeIndex,
                  dropTarget, isDragging, pointerStart, drags,
                  dictLoaded, wordScore, rowPoints, word, probe >>

\* ── Game: round lifecycle ─────────────────────────────────────
\* Game.showCascadeLetters placing the letter at cascadeIndex (g is the
\* board it acts on).
cascadePlace(g, i) ==
  place(g, [createTile(CascadeLetters[i + 1], <<0, i>>) EXCEPT !.settled = TRUE], <<0, i>>)

\* A round start that keeps the time left of the round before.
startRoundKeepTime ==
  /\ grid' = cascadePlace(clearAll(grid), 0)
  /\ score' = 0
  /\ timeLeft' = timeLeft
  /\ clearResults' = << >>
  /\ refillTimers' = {}
  /\ refillPending' = cancelRefills(refillPending, refillTimers)
  /\ phase' = "playing"
  /\ enabled' = FALSE
  /\ cascadeIndex' = 1
  /\ cascadeTimer' = "step"
  /\ UNCHANGED << isPerfectBoard, roundTimer, intervals, clearTimer >>

\* A round start that keeps the score of the round before.
startRoundKeepScore ==
  /\ grid' = cascadePlace(clearAll(grid), 0)
  /\ score' = score
  /\ timeLeft' = ROUND_DURATION_S
  /\ clearResults' = << >>
  /\ refillTimers' = {}
  /\ refillPending' = cancelRefills(refillPending, refillTimers)
  /\ phase' = "playing"
  /\ enabled' = FALSE
  /\ cascadeIndex' = 1
  /\ cascadeTimer' = "step"
  /\ UNCHANGED << isPerfectBoard, roundTimer, intervals, clearTimer >>

\* Game.startRound, with its first call of showCascadeLetters.
startRound ==
  /\ grid' = cascadePlace(clearAll(grid), 0)
  /\ score' = 0
  /\ timeLeft' = ROUND_DURATION_S
  /\ clearResults' = << >>
  /\ refillTimers' = {}
  /\ refillPending' = cancelRefills(refillPending, refillTimers)
  /\ phase' = "playing"
  /\ enabled' = FALSE
  /\ cascadeIndex' = 1
  /\ cascadeTimer' = "step"
  /\ UNCHANGED << isPerfectBoard, roundTimer, intervals, clearTimer >>

\* A tap handler without the phase check.
handleTapAnyPhase == startRound

\* Game.handleTap.
handleTap ==
  IF phase \in {"start", "roundEnd"} THEN startRound ELSE UNCHANGED gameVars

\* The 120 ms timeout of the intro: showCascadeLetters.
CascadeStep ==
  /\ cascadeTimer = "step"
  /\ IF cascadeIndex < ROW_WIDTHS(0)
     THEN /\ grid' = cascadePlace(grid, cascadeIndex)
          /\ cascadeIndex' = cascadeIndex + 1
          /\ cascadeTimer' = "step"
     ELSE /\ cascadeTimer' = "end"
          /\ UNCHANGED << grid, cascadeIndex >>
  /\ UNCHANGED << phase, score, timeLeft, clearResults, isPerfectBoard, refillTimers, refillPending,
                  roundTimer, intervals, clearTimer, enabled, inputVars, drags, envVars >>
  /\ UNCHANGED << highScores, probe >>

\* The 800 ms timeout that ends the intro.
CascadeEnd ==
  /\ cascadeTimer = "end"
  /\ cascadeTimer' = "none"
  /\ \E letters \in [Cols(0) -> HandLetters] :
       grid' = fillHand(clearAll(grid), letters)
  /\ drag' = DragAfterClear(grid, drag)
  /\ enabled' = TRUE
  /\ startCountdown
  /\ lateLoad' = FALSE
  /\ UNCHANGED << phase, score, timeLeft, clearResults, isPerfectBoard, refillTimers, refillPending,
                  cascadeIndex, clearTimer, dropTarget, isDragging, pointerStart,
                  drags, dictLoaded, wordScore, rowPoints, word >>
  /\ UNCHANGED << highScores, probe >>

\* Game.updateTimer, the callback of a running countdown interval.
UpdateTimer ==
  /\ intervals > 0
  /\ IF timeLeft - 1 <= 0
     THEN /\ timeLeft' = 0
          /\ endRound
     ELSE /\ timeLeft' = timeLeft - 1
          /\ UNCHANGED << phase, enabled, roundTimer, intervals, cascadeTimer, refillTimers,
                          refillPending, highScores >>
  /\ UNCHANGED << grid, score, clearResults, isPerfectBoard, cascadeIndex, clearTimer,
                  inputVars, drags, envVars, probe >>

\* ── Game: hand refill and tap-to-drop ─────────────────────────
\* Game.scheduleHandRefill: the column's earlier timeout, if any, is
\* cancelled and a new one is pending.
scheduleHandRefill(timers, col) == timers \cup {col}

\* A reschedule that leaves the column's earlier timeout running.
refillTimeoutsNoCancel(pending, timers, col) == [pending EXCEPT ![col] = @ + 1]

\* The timeouts pending after scheduleHandRefill(col): "const existing =
\* this.refillTimers.get(col); if (existing !== undefined)
\* clearTimeout(existing);" and then window.setTimeout.
refillTimeouts(pending, timers, col) ==
  [pending EXCEPT ![col] = (IF col \in timers /\ @ > 0 THEN @ - 1 ELSE @) + 1]

\* The refill placed by the timeout of scheduleHandRefill.
refillTile(g, col, letter) ==
  place(g, [createTile(letter, <<0, col>>) EXCEPT !.settled = TRUE], <<0, col>>)

\* A refill callback that checks the phase but not its slot.
refillGuardPhaseOnly(ph, g, col) == ph = "playing"

\* A refill callback that checks its slot but not the phase.
refillGuardSlotOnly(ph, g, col) == isEmpty(g, <<0, col>>)

\* The two guards of the refill callback: "if (this.phase !== 'playing')
\* return; if (!this.board.isEmpty({ row: 0, col })) return;".
refillGuard(ph, g, col) == ph = "playing" /\ isEmpty(g, <<0, col>>)

\* The timeout callback of scheduleHandRefill(col).
Refill(col) ==
  /\ refillPending[col] > 0
  /\ IF ~refillGuard(phase, grid, col)
     THEN /\ refillTimers' = refillTimers \ {col}
          /\ refillPending' = [refillPending EXCEPT ![col] = @ - 1]
          /\ UNCHANGED << grid, phase, enabled, roundTimer, intervals, cascadeTimer,
                          clearResults, isPerfectBoard, score, clearTimer >>
     ELSE \E letter \in HandLetters :
            /\ grid' = refillTile(grid, col, letter)
            /\ IF isFull(grid')
               THEN evaluateBoard(grid', refillTimers \ {col},
                                  [refillPending EXCEPT ![col] = @ - 1])
               ELSE /\ refillTimers' = refillTimers \ {col}
                    /\ refillPending' = [refillPending EXCEPT ![col] = @ - 1]
                    /\ UNCHANGED << phase, enabled, roundTimer, intervals, cascadeTimer,
                                    clearResults, isPerfectBoard, score, clearTimer >>
  /\ UNCHANGED << timeLeft, cascadeIndex, inputVars, drags, envVars >>
  /\ UNCHANGED << highScores, probe >>

\* A drop that scans the rows below the hand from the bottom row upwards.
dropFromHandBottomUp(g, pos) ==
  LET tile == get(g, pos)
      target == firstEmpty(g, RowMajor(NUM_ROWS - 1, NUM_ROWS - 1) \o RowMajor(1, NUM_ROWS - 2))
  IN IF tile = NoTile \/ target = NoPos THEN g
     ELSE place(remove(g, tile), [tile EXCEPT !.settled = FALSE, !.fall = TRUE], target)

\* Game.dropFromHand(pos) on board g: the board afterwards (the hand tile at
\* pos moved to the leftmost empty cell below the hand), or g when it is a no-op.
dropFromHand(g, pos) ==
  LET tile == get(g, pos)
      target == findLeftmostEmpty(g)
  IN IF tile = NoTile \/ target = NoPos THEN g
     ELSE place(remove(g, tile), [tile EXCEPT !.settled = FALSE, !.fall = TRUE], target)

\* ── Game: per-tile gravity ────────────────────────────────────
\* The cells in the order processGravity visits them: rows NUM_ROWS-2 down
\* to 1, each left to right.
RECURSIVE gravityOrder(_)
gravityOrder(r) == IF r < 1 THEN << >> ELSE RowCells(r, 0) \o gravityOrder(r - 1)

\* A loop body that moves a tile as soon as the row below has room, without
\* first unsettling it and starting its fall cadence.
gravityTileNoCadence(st, cell, due) ==
  LET tile == st.g[cell]
      emptyCols == emptyInRow(st.g, cell[1] + 1)
  IN IF tile = NoTile \/ tile.pos[1] = 0 THEN st
     ELSE IF Len(emptyCols) = 0
     THEN (IF ~tile.settled
           THEN [g |-> set(st.g, cell, [tile EXCEPT !.settled = TRUE, !.fall = FALSE]),
                 any |-> TRUE]
           ELSE st)
     ELSE [st EXCEPT !.g = place(set(st.g, tile.pos, NoTile), [tile EXCEPT !.fall = TRUE],
                                 <<cell[1] + 1, emptyCols[1]>>)]

\* A loop body whose tiles start their fall cadence and never move.
gravityTileNeverMoves(st, cell, due) ==
  LET tile == st.g[cell]
      emptyCols == emptyInRow(st.g, cell[1] + 1)
  IN IF tile = NoTile \/ tile.pos[1] = 0 THEN st
     ELSE IF Len(emptyCols) = 0
     THEN (IF ~tile.settled
           THEN [g |-> set(st.g, cell, [tile EXCEPT !.settled = TRUE, !.fall = FALSE]),
                 any |-> TRUE]
           ELSE st)
     ELSE IF ~tile.fall
     THEN [st EXCEPT !.g = set(st.g, cell, [tile EXCEPT !.fall = TRUE, !.settled = FALSE])]
     ELSE st

\* One iteration of the loop body for the tile in cell; st = [g, any] is the
\* board and anySettled so far; due: now >= tile.nextFallAt for this tile.
gravityTile(st, cell, due) ==
  LET tile == st.g[cell]
      emptyCols == emptyInRow(st.g, cell[1] + 1)
  IN IF tile = NoTile \/ tile.pos[1] = 0 THEN st
     ELSE IF Len(emptyCols) = 0
     THEN (IF ~tile.settled
           THEN [g |-> set(st.g, cell, [tile EXCEPT !.settled = TRUE, !.fall = FALSE]),
                 any |-> TRUE]
           ELSE st)
     ELSE IF ~tile.fall
     THEN [st EXCEPT !.g = set(st.g, cell, [tile EXCEPT !.fall = TRUE, !.settled = FALSE])]
     ELSE IF ~due THEN st
     ELSE [st EXCEPT !.g = place(set(st.g, tile.pos, NoTile), tile,
                                 <<cell[1] + 1, emptyCols[1]>>)]

\* The loop over the cells in visiting order.  (A one-element set binds the
\* board after each iteration as a value, here and in settleBottom and
\* processGravity: r is the result, s the board passed on.)
RECURSIVE gravityLoop(_, _, _)
gravityLoop(st, cells, dueSet) ==
  IF cells = << >> THEN st
  ELSE CHOOSE r \in { gravityLoop(s, Tail(cells), dueSet) :
                        s \in { gravityTile(st, Head(cells), Head(cells) \in dueSet) } } : TRUE

\* A gravity step without the pass over the bottom row.
settleNone(st, c) == st

\* "Settle bottom-row tiles".
RECURSIVE settleBottom(_, _)
settleBottom(st, c) ==
  IF c >= ROW_WIDTHS(NUM_ROWS - 1) THEN st
  ELSE LET tile == st.g[<<NUM_ROWS - 1, c>>]
       IN CHOOSE r \in { settleBottom(s, c + 1) :
                           s \in { IF tile # NoTile /\ ~tile.settled
                                   THEN [g |-> set(st.g, <<NUM_ROWS - 1, c>>,
                                                   [tile EXCEPT !.settled = TRUE, !.fall = FALSE]),
                                         any |-> TRUE]
                                   ELSE st } } : TRUE

\* Game.processGravity up to the full-board check: the board and anySettled.
processGravity(g, dueSet) ==
  CHOOSE r \in { settleBottom(s, 0) :
                  s \in { gravityLoop([g |-> g, any |-> FALSE], gravityOrder(NUM_ROWS - 2),
                                      dueSet) } } : TRUE

\* The tiles whose fall cadence is ticking: the ones a frame can find due.
Ticking(g) == { p \in Cells : p[1] >= 1 /\ p[1] <= NUM_ROWS - 2 /\ g[p] # NoTile /\ g[p].fall }

\* A gravity step that runs in every phase.
gravityInEveryPhase(ph) == TRUE

\* "if (this.phase !== 'playing') return;" of processGravity.
gravityGuard(ph) == ph = "playing"

\* A gravity step without the full-board check.
fullNeverChecked(any, g) == FALSE

\* "if (anySettled && this.board.isFull())" of processGravity.
fullAfterSettle(any, g) == any /\ isFull(g)

\* A requestAnimationFrame callback: Game.renderFrame, which runs
\* processGravity unless the phase is start.
Frame ==
  /\ phase # "start"
  /\ IF ~gravityGuard(phase)
     THEN UNCHANGED gameVars
     ELSE \E dueSet \in SUBSET Ticking(grid) :
            LET st == processGravity(grid, dueSet)
            IN /\ grid' = st.g
               /\ IF fullAfterSettle(st.any, st.g)
                  THEN evaluateBoard(st.g, refillTimers, refillPending)
                  ELSE UNCHANGED << phase, enabled, roundTimer, intervals, cascadeTimer,
                                    refillTimers, refillPending, clearResults,
                                    isPerfectBoard, score,
                                    clearTimer >>
               /\ UNCHANGED << timeLeft, cascadeIndex >>
  /\ UNCHANGED << inputVars, drags, envVars >>
  /\ UNCHANGED << highScores, probe >>

\* ── Input (input.ts) ──────────────────────────────────────────
\* The onTap callback reaching Game.handleTap; startRound clears the board,
\* so a tile the drag refers to is in no cell afterwards.
onTap ==
  /\ handleTap
  /\ drag' = IF phase \in {"start", "roundEnd"} THEN DragAfterClear(grid, drag) ELSE drag
  /\ UNCHANGED << dropTarget, isDragging, pointerStart >>

\* A draggability check that forgets the settled flag.
notDraggableCoveredOnly(g, gridPos, tile) == gridPos[1] # 0 /\ isCovered(g, gridPos)

\* The draggability check of onPointerDown: "if (!isHand) { if (!tile.settled
\* || this.board.isCovered(gridPos)) return; }".
notDraggable(g, gridPos, tile) ==
  gridPos[1] # 0 /\ (~tile.settled \/ isCovered(g, gridPos))

\* Input.onPointerDown at pointer position pt.
PointerDown(pt) ==
  /\ LET gridPos == pixelToGrid(pt[1], pt[2])
         tile == get(grid, gridPos)
     IN IF ~enabled \/ gridPos = NoPos \/ tile = NoTile
        THEN onTap
        ELSE IF notDraggable(grid, gridPos, tile)
        THEN UNCHANGED << gameVars, inputVars >>
        ELSE /\ pointerStart' = pt
             /\ isDragging' = FALSE
             /\ drag' = [active |-> TRUE, tile |-> NoTile, originPos |-> gridPos,
                         offsetX |-> pt[1] - gridToPixel(gridPos)[1],
                         offsetY |-> pt[2] - gridToPixel(gridPos)[2],
                         visual |-> NoPoint]
             /\ grid' = [Unmark(grid) EXCEPT ![gridPos].mark = TRUE]
             /\ UNCHANGED << phase, score, timeLeft, clearResults, isPerfectBoard,
                             refillTimers, refillPending, roundTimer, intervals,
                             cascadeIndex,
                             cascadeTimer, clearTimer, enabled, dropTarget >>
  /\ drags' = IF phase' = "playing" /\ phase # "playing" THEN 0 ELSE drags
  /\ lateLoad' = IF phase' = "playing" /\ phase # "playing" THEN FALSE ELSE lateLoad
  /\ UNCHANGED << dictLoaded, wordScore, rowPoints, word >>
  /\ UNCHANGED << highScores, probe >>

\* Math.hypot(dx, dy) < DRAG_THRESHOLD * dpr, with dpr = 1.
belowThreshold(from, to) ==
  (to[1] - from[1]) * (to[1] - from[1]) + (to[2] - from[2]) * (to[2] - from[2])
    < DRAG_THRESHOLD * DRAG_THRESHOLD

\* Input.onPointerMove at pointer position pt.
PointerMove(pt) ==
  /\ IF drag = NoDrag \/ pointerStart = NoPoint
        \/ (~isDragging /\ belowThreshold(pointerStart, pt))
     THEN UNCHANGED << grid, inputVars, drags >>
     ELSE LET tile == DragTile(grid, drag)
              g1 == IF isDragging THEN grid ELSE remove(grid, tile)
              t1 == IF isDragging THEN tile
                    ELSE [tile EXCEPT !.settled = FALSE, !.mark = FALSE]
          IN /\ isDragging \/ drags < MaxDrags
             /\ drags' = IF isDragging THEN drags ELSE drags + 1
             /\ isDragging' = TRUE
             /\ grid' = g1
             /\ drag' = [drag EXCEPT !.tile = t1,
                                     !.visual = <<pt[1] - drag.offsetX, pt[2] - drag.offsetY>>]
             /\ dropTarget' = findNearestEmpty(g1, pt[1], pt[2])
             /\ UNCHANGED pointerStart
  /\ UNCHANGED << phase, score, timeLeft, clearResults, isPerfectBoard, refillTimers, refillPending,
                  roundTimer, intervals, cascadeIndex, cascadeTimer, clearTimer, enabled,
                  envVars >>
  /\ UNCHANGED << highScores, probe >>

\* Game's onDrop callback: the tile's fall cadence and the refill timers.
onDropTile(tile, to) ==
  IF to[1] > 0 /\ to[1] < NUM_ROWS - 1 THEN [tile EXCEPT !.fall = TRUE] ELSE tile
onDropTimers(timers, from, to) ==
  IF from[1] = 0 /\ to[1] > 0 THEN scheduleHandRefill(timers, from[2]) ELSE timers
onDropTimeouts(pending, timers, from, to) ==
  IF from[1] = 0 /\ to[1] > 0 THEN refillTimeouts(pending, timers, from[2]) ELSE pending

\* Where the release of a drag puts the tile, and by which branch of
\* onPointerUp: "drop" (the remembered drop target), "origin" (back to the
\* empty origin), "alt" (nearest empty cell), "forced" (onto the origin).
releaseAt(g, origin, target, visual) ==
  IF target # NoPos THEN [pos |-> target, by |-> "drop"]
  ELSE IF isEmpty(g, origin) THEN [pos |-> origin, by |-> "origin"]
  ELSE LET alt == findNearestEmpty(g, visual[1], visual[2])
       IN IF alt # NoPos THEN [pos |-> alt, by |-> "alt"]
          ELSE [pos |-> origin, by |-> "forced"]

\* The board after the release of the dragged tile.
releaseBoard(g, tile, origin, target, visual) ==
  LET rel == releaseAt(g, origin, target, visual)
  IN CASE rel.by \in {"drop", "alt"} ->
            place(g, onDropTile([tile EXCEPT !.settled = FALSE], rel.pos), rel.pos)
       [] rel.by = "origin" ->
            place(g, [tile EXCEPT !.settled = (origin[1] = 0)], origin)
       [] OTHER ->
            set(g, origin, [tile EXCEPT !.pos = origin, !.settled = TRUE])

\* Input.onPointerUp (also the pointercancel handler).
PointerUp ==
  /\ IF drag = NoDrag
     THEN UNCHANGED << grid, refillTimers, refillPending, inputVars >>
     ELSE IF ~isDragging
     THEN \* a tap: onHandClick for a hand tile
          /\ drag' = NoDrag
          /\ dropTarget' = NoPos
          /\ pointerStart' = NoPoint
          /\ UNCHANGED isDragging
          /\ IF drag.originPos[1] = 0 /\ phase = "playing"
             THEN /\ grid' = dropFromHand(Unmark(grid), drag.originPos)
                  /\ refillTimers' =
                       IF grid' # Unmark(grid)
                       THEN scheduleHandRefill(refillTimers, drag.originPos[2])
                       ELSE refillTimers
                  /\ refillPending' =
                       IF grid' # Unmark(grid)
                       THEN refillTimeouts(refillPending, refillTimers, drag.originPos[2])
                       ELSE refillPending
             ELSE /\ grid' = Unmark(grid)
                  /\ UNCHANGED << refillTimers, refillPending >>
     ELSE LET rel == releaseAt(grid, drag.originPos, dropTarget, drag.visual)
          IN /\ grid' = releaseBoard(grid, drag.tile, drag.originPos, dropTarget, drag.visual)
             /\ refillTimers' =
                  IF rel.by \in {"drop", "alt"}
                  THEN onDropTimers(refillTimers, drag.originPos, rel.pos)
                  ELSE refillTimers
             /\ refillPending' =
                  IF rel.by \in {"drop", "alt"}
                  THEN onDropTimeouts(refillPending, refillTimers, drag.originPos, rel.pos)
                  ELSE refillPending
             /\ drag' = NoDrag
             /\ dropTarget' = NoPos
             /\ pointerStart' = NoPoint
             /\ isDragging' = FALSE
  /\ UNCHANGED << phase, score, timeLeft, clearResults, isPerfectBoard,
                  roundTimer, intervals, cascadeIndex, cascadeTimer, clearTimer, enabled,
                  drags, envVars >>
  /\ UNCHANGED << highScores, probe >>

\* ── Specification ─────────────────────────────────────────────
Next ==
  \/ \E pt \in PointerSpots : PointerDown(pt)
  \/ \E pt \in PointerSpots : PointerMove(pt)
  \/ PointerUp
  \/ Frame
  \/ \E col \in Cols(0) : Refill(col)
  \/ UpdateTimer
  \/ CascadeStep
  \/ CascadeEnd
  \/ ClearTimeout

Spec == Init /\ [][Next]_vars

\* ── The word list arriving during play ────────────────────────
\* dictionary.ts: the fetch of loadDictionary resolving, wordSet assigned.
\* main.ts starts the game after that; a Game started earlier sees it happen
\* at any moment.  lateLoad: the board was full and unevaluated at that moment
\* and has not been cleared since.
LoadDictionary ==
  /\ ~dictLoaded
  /\ dictLoaded' = TRUE
  /\ lateLoad' = (phase = "playing" /\ isFull(grid))
  /\ UNCHANGED << gameVars, inputVars, drags, wordScore, rowPoints, word >>
  /\ UNCHANGED << highScores, probe >>

InitLateDict ==
  /\ InitGame
  /\ highScores = loadHighScores(TopScores)
  /\ probe = NoProbe
  /\ dictLoaded = FALSE
  /\ word = << >>

NextLateDict ==
  \/ Next
  \/ LoadDictionary

SpecLateDict == InitLateDict /\ [][NextLateDict]_vars

\* ── Evaluation of arbitrary full boards ───────────────────────
\* The state just after the tap that drops a hand tile into the last hole
\* below the hand: the tile at u is falling, the hand slot h it came from is
\* empty with its refill pending, every other cell holds a settled tile.
EvalLetters == {"A", "T", "E"}
InitEval ==
  /\ \E h \in Cols(0), u \in {<<1, c>> : c \in Cols(1)}, letters \in [Cells -> EvalLetters] :
       /\ grid = [p \in Cells |->
                    IF p = <<0, h>> THEN NoTile
                    ELSE IF p = u THEN [createTile(letters[p], p) EXCEPT !.fall = TRUE]
                    ELSE [createTile(letters[p], p) EXCEPT !.settled = TRUE]]
       /\ refillTimers = {h}
       /\ refillPending = [c \in Cols(0) |-> IF c = h THEN 1 ELSE 0]
  /\ phase = "playing"
  /\ score = 0
  /\ highScores = loadHighScores(TopScores)
  /\ probe = NoProbe
  /\ timeLeft = ROUND_DURATION_S
  /\ clearResults = << >>
  /\ isPerfectBoard = FALSE
  /\ roundTimer = TRUE
  /\ intervals = 1
  /\ cascadeIndex = ROW_WIDTHS(0)
  /\ cascadeTimer = "none"
  /\ clearTimer = FALSE
  /\ enabled = TRUE
  /\ drag = NoDrag
  /\ dropTarget = NoPos
  /\ isDragging = FALSE
  /\ pointerStart = NoPoint
  /\ dictLoaded = TRUE
  /\ drags = 0
  /\ lateLoad = FALSE
  /\ wordScore = 0 - 1
  /\ rowPoints = 0 - 1
  /\ word = << >>

NextEval ==
  \/ Frame
  \/ \E col \in Cols(0) : Refill(col)
  \/ ClearTimeout
  \/ UpdateTimer

SpecEval == InitEval /\ [][NextEval]_vars

\* ── Evaluation of full boards that hold Qu tiles ──────────────
\* The states of InitEval over letters that include the Qu tile.
QuLetters == {"Qu", "A", "E"}
InitQu ==
  /\ \E h \in Cols(0), u \in {<<1, c>> : c \in Cols(1)}, letters \in [Cells -> QuLetters] :
       /\ grid = [p \in Cells |->
                    IF p = <<0, h>> THEN NoTile
                    ELSE IF p = u THEN [createTile(letters[p], p) EXCEPT !.fall = TRUE]
                    ELSE [createTile(letters[p], p) EXCEPT !.settled = TRUE]]
       /\ refillTimers = {h}
       /\ refillPending = [c \in Cols(0) |-> IF c = h THEN 1 ELSE 0]
  /\ phase = "playing"
  /\ score = 0
  /\ highScores = loadHighScores(TopScores)
  /\ probe = NoProbe
  /\ timeLeft = ROUND_DURATION_S
  /\ clearResults = << >>
  /\ isPerfectBoard = FALSE
  /\ roundTimer = TRUE
  /\ intervals = 1
  /\ cascadeIndex = ROW_WIDTHS(0)
  /\ cascadeTimer = "none"
  /\ clearTimer = FALSE
  /\ enabled = TRUE
  /\ drag = NoDrag
  /\ dropTarget = NoPos
  /\ isDragging = FALSE
  /\ pointerStart = NoPoint
  /\ dictLoaded = TRUE
  /\ drags = 0
  /\ lateLoad = FALSE
  /\ wordScore = 0 - 1
  /\ rowPoints = 0 - 1
  /\ word = << >>

SpecQu == InitQu /\ [][NextEval]_vars

\* ── Gravity on arbitrary boards ───────────────────────────────
\* Boards in phase playing whose tiles carry distinct letters (the letter
\* names the tile): the hand cells empty or settled, the cells below empty,
\* settled, unsettled or falling.  The word list is not loaded, so a full
\* board stays in phase playing.
Alphabet == <<"A", "B", "C", "D", "E", "F", "G", "H", "I", "J", "K", "L", "M",
              "N", "O", "P", "Q", "R", "S", "T", "U", "V", "W", "X", "Y", "Z">>
TileName(p) == Alphabet[SumWidths(p[1] - 1) + p[2] + 1]
TileKinds(p) ==
  IF p[1] = 0 THEN {"none", "settled"} ELSE {"none", "settled", "unsettled", "falling"}
BoardTile(p, kind) ==
  CASE kind = "none" -> NoTile
    [] kind = "settled" -> [createTile(TileName(p), p) EXCEPT !.settled = TRUE]
    [] kind = "unsettled" -> createTile(TileName(p), p)
    [] OTHER -> [createTile(TileName(p), p) EXCEPT !.fall = TRUE]

InitBoard ==
  /\ \E kinds \in [Cells -> {"none", "settled", "unsettled", "falling"}] :
       /\ \A p \in Cells : kinds[p] \in TileKinds(p)
       /\ grid = [p \in Cells |-> BoardTile(p, kinds[p])]
  /\ phase = "playing"
  /\ score = 0
  /\ highScores = loadHighScores(TopScores)
  /\ probe = NoProbe
  /\ timeLeft = ROUND_DURATION_S
  /\ clearResults = << >>
  /\ isPerfectBoard = FALSE
  /\ refillTimers = {}
  /\ refillPending = [c \in Cols(0) |-> 0]
  /\ roundTimer = TRUE
  /\ intervals = 1
  /\ cascadeIndex = ROW_WIDTHS(0)
  /\ cascadeTimer = "none"
  /\ clearTimer = FALSE
  /\ enabled = TRUE
  /\ drag = NoDrag
  /\ dropTarget = NoPos
  /\ isDragging = FALSE
  /\ pointerStart = NoPoint
  /\ dictLoaded = FALSE
  /\ drags = 0
  /\ lateLoad = FALSE
  /\ wordScore = 0 - 1
  /\ rowPoints = 0 - 1
  /\ word = << >>

\* A call of Board.applyGravity().
ApplyGravity ==
  /\ grid' = applyGravity(grid).g
  /\ UNCHANGED << phase, score, timeLeft, clearResults, isPerfectBoard, refillTimers,
                  refillPending, roundTimer, intervals, cascadeIndex, cascadeTimer,
                  clearTimer, enabled, inputVars, drags, envVars >>
  /\ UNCHANGED << highScores, probe >>

NextBoard ==
  \/ ApplyGravity
  \/ Frame

SpecBoard == InitBoard /\ [][NextBoard]_vars

\* ── Rounds played with taps, on every stored high-score list ──
\* The lists the storage may hold: saveScore wrote them, so they are in
\* descending order; one of them is longer than MAX_SCORES (an older build's).
StoredValues == {1, 3, 5}
StoredLists ==
  { st \in UNION { [1 .. k -> StoredValues] : k \in 0 .. MAX_SCORES + 1 } :
      \A i \in 1 .. Len(st) - 1 : st[i] >= st[i + 1] }

InitRounds ==
  /\ InitGame
  /\ highScores \in { loadHighScores(st) : st \in StoredLists }
  /\ probe = NoProbe
  /\ dictLoaded = TRUE
  /\ word = << >>

NextRounds ==
  \/ \E pt \in PointerSpots : PointerDown(pt)
  \/ PointerUp
  \/ Frame
  \/ \E col \in Cols(0) : Refill(col)
  \/ UpdateTimer
  \/ CascadeStep
  \/ CascadeEnd
  \/ ClearTimeout

SpecRounds == InitRounds /\ [][NextRounds]_vars

\* ── Gravity left to itself ────────────────────────────────────
\* Any board in phase playing, with no input: only the frames and the
\* countdown run.  FrameDue is a frame that comes when every running fall
\* cadence has elapsed; time passes, so such frames keep coming.
FrameDue == Frame /\ (gravityGuard(phase) => grid' = processGravity(grid, Ticking(grid)).g)

NextSettle ==
  \/ Frame
  \/ UpdateTimer

SpecSettle == InitBoard /\ [][NextSettle]_vars /\ WF_vars(FrameDue)

\* ── Rounds under the timers' fairness ─────────────────────────
\* A timeout that is pending fires (CascadeStep, CascadeEnd, ClearTimeout).
\* The countdown interval fires in every stretch of phase playing: it is due
\* 1000 ms after the intro or a clearing ends, and a board cannot be filled
\* again sooner, since its 20 tiles below the hand need three refills of the
\* hand at HAND_REFILL_MS = 400 ms each.
TimersFair ==
  /\ WF_vars(CascadeStep)
  /\ WF_vars(CascadeEnd)
  /\ WF_vars(ClearTimeout)
  /\ SF_vars(UpdateTimer)

SpecLive == Init /\ [][Next]_vars /\ TimersFair

\* ── pixelToGrid on every pixel of small layouts ───────────────
\* Layouts with integer tile size and padding, and the pixels (whole and
\* half) of the board and of a margin around it.
TileSizes == {2, 3}
TilePads == {0, 1, 2}
Origins == {0, 1}
Pending == << "pending" >>
Layouts ==
  [tileSize : TileSizes, tilePad : TilePads, boardX : Origins, boardY : Origins]
InitLayout ==
  /\ InitGame
  /\ highScores = loadHighScores(TopScores)
  /\ dictLoaded = FALSE
  /\ word = << >>
  /\ \E L \in Layouts :
       \E px2 \in (2 * L.boardX - 2) .. (2 * L.boardX + 2 * rowWidthPx(L, 0) + 2),
          py2 \in (2 * L.boardY - 2) .. (rowY2(L, NUM_ROWS - 1) + 2 * L.tileSize + 2) :
         probe = [layout |-> L, px2 |-> px2, py2 |-> py2, pos |-> Pending]

\* A call of pixelToGrid(px, py, layout).
PixelToGrid ==
  /\ probe # NoProbe
  /\ probe.pos = Pending
  /\ probe' = [probe EXCEPT !.pos = pixelToGrid2(probe.layout, probe.px2, probe.py2)]
  /\ UNCHANGED << gameVars, inputVars, envVars, drags, highScores >>

NextLayout ==
  \/ PixelToGrid

SpecLayout == InitLayout /\ [][NextLayout]_vars

\* ── Board.scoreWord on arbitrary words ────────────────────────
ScoreLetters == {"A", "T", "K"}
WordsUpTo(n) == UNION { [1 .. k -> ScoreLetters] : k \in 0 .. n }

InitScore ==
  /\ InitGame
  /\ highScores = loadHighScores(TopScores)
  /\ probe = NoProbe
  /\ dictLoaded \in BOOLEAN
  /\ word \in WordsUpTo(MaxWordLen)

\* A call of Board.scoreWord(word).
ScoreWord ==
  /\ wordScore < 0
  /\ wordScore' = scoreWord(word)
  /\ UNCHANGED << gameVars, inputVars, drags, dictLoaded, lateLoad, rowPoints, word >>
  /\ UNCHANGED << highScores, probe >>

\* The row loop of evaluateBoard on a row that reads word.
ScoreRow ==
  /\ rowPoints < 0
  /\ rowPoints' = rowScore(isWord(dictLoaded, word), word)
  /\ UNCHANGED << gameVars, inputVars, drags, dictLoaded, lateLoad, wordScore, word >>
  /\ UNCHANGED << highScores, probe >>

NextScore ==
  \/ ScoreWord
  \/ ScoreRow

SpecScore == InitScore /\ [][NextScore]_vars

\* ── Claims ────────────────────────────────────────────────────
\* The tiles of the game: those in a cell, and the one held by a drag.
Held == drag # NoDrag /\ isDragging
NumTiles == filledCount(grid) + (IF Held THEN 1 ELSE 0)

\* The release (pointer-up) of a tile picked up in the current round.
Release == Held /\ drags > 0 /\ PointerUp

\* Every tile below the hand is settled: no settle event is pending.
AllSettledBelow(g) == \A p \in Cells : (p[1] >= 1 /\ g[p] # NoTile) => g[p].settled

\* A tile below the hand goes from unsettled to settled in this step.
SettleEvent ==
  \E p \in Cells : p[1] >= 1 /\ grid[p] # NoTile /\ ~grid[p].settled /\ grid'[p].settled

\* C1: tile conservation.  Every tile is in exactly one cell or is the tile
\* held by the drag, so the release of a held tile never lowers the number of
\* tiles of the game (cells filled plus the tile held): no tile disappears.
C1_TileConservation == [][Release => NumTiles' >= NumTiles]_vars

\* C2: a release onto the remembered drop target places the tile on a cell
\* that is empty at the moment of the release.
C2_DropOnlyOnEmpty == [][(Release /\ dropTarget # NoPos) => isEmpty(grid, dropTarget)]_vars

\* C3: drop fallback chain.  A release with no drop target, of a tile picked
\* up below the hand, puts the tile on its origin when the origin is empty, on
\* an empty cell when the origin is occupied (gravity filled it during the
\* drag) and some cell of the board is empty, and onto the occupied origin
\* only when no cell of the board is empty.
C3_FallbackChain ==
  [][(Release /\ dropTarget = NoPos /\ drag.originPos[1] >= 1) =>
       /\ isEmpty(grid, drag.originPos) =>
            (grid'[drag.originPos] # NoTile /\ filledCount(grid') = filledCount(grid) + 1)
       /\ (~isEmpty(grid, drag.originPos) /\ filledCount(grid) < TOTAL_POSITIONS) =>
            filledCount(grid') = filledCount(grid) + 1
       /\ filledCount(grid') = filledCount(grid) => filledCount(grid) = TOTAL_POSITIONS]_vars

C5_FullBoardEvaluated ==
  (phase = "playing" /\ dictLoaded /\ isFull(grid)) => ~AllSettledBelow(grid)

\* C6: when a full board is detected without the word list, nothing changes:
\* a gravity frame or a refill callback that leaves the board full in phase
\* playing keeps phase, score, results, every timer and the input switch, and
\* the board stays full.
C6_NoDictionaryNoEvaluation ==
  [][(/\ phase = "playing" /\ ~dictLoaded /\ isFull(grid')
      /\ (Frame \/ \E col \in Cols(0) : Refill(col))) =>
        /\ phase' = "playing" /\ score' = score /\ clearResults' = clearResults
        /\ isPerfectBoard' = isPerfectBoard /\ enabled' = enabled
        /\ roundTimer' = roundTimer /\ intervals' = intervals
        /\ cascadeTimer' = cascadeTimer /\ clearTimer' = clearTimer
        /\ \A c \in refillTimers : c \in refillTimers' \/ Refill(c)
        /\ filledCount(grid') >= filledCount(grid)]_vars

\* C6 witness: a full board in phase playing, with no word list, filled
\* without any drag in this round: evaluateBoard was called and returned.
C6_Witness ==
  /\ phase = "playing" /\ ~dictLoaded /\ isFull(grid) /\ drags = 0 /\ enabled
  /\ AllSettledBelow(grid)

RECURSIVE SumOfScores(_)
SumOfScores(rs) == IF rs = << >> THEN 0 ELSE Head(rs).score + SumOfScores(Tail(rs))
RECURSIVE SumOfValidScores(_)
SumOfValidScores(rs) ==
  IF rs = << >> THEN 0
  ELSE (IF Head(rs).valid THEN Head(rs).score ELSE 0) + SumOfValidScores(Tail(rs))
EveryRowValid(rs) == \A i \in 1 .. Len(rs) : rs[i].valid

\* C8: perfect board doubling.  The evaluation records one result per row
\* and adds to score twice the sum of the recorded row scores when every
\* recorded row is valid, and the plain sum of the valid rows' scores
\* otherwise.
C8_PerfectBoardDoubling ==
  [][(phase = "playing" /\ phase' = "clearing") =>
       /\ Len(clearResults') = NUM_ROWS
       /\ isPerfectBoard' = EveryRowValid(clearResults')
       /\ score' - score = IF EveryRowValid(clearResults')
                            THEN 2 * SumOfScores(clearResults')
                            ELSE SumOfValidScores(clearResults')]_vars

\* C8 witness: a perfect board has been evaluated and credited twice its rows.
C8_Witness ==
  /\ phase = "clearing" /\ isPerfectBoard
  /\ score > 0 /\ score = 2 * SumOfScores(clearResults)

\* The letters of row r, left to right.
RowLetters(r) == [c \in 1 .. ROW_WIDTHS(r) |-> grid[<<r, c - 1>>].letter]

\* C9: row validity.  For every row of the evaluated board the recorded word
\* is the row read left to right, the recorded score is greater than 0
\* exactly when the word list contains that word, and an invalid row scores 0.
C9_RowValidity ==
  phase = "clearing" =>
    /\ Len(clearResults) = NUM_ROWS
    /\ \A i \in 1 .. Len(clearResults) :
         /\ clearResults[i].row = i - 1
         /\ clearResults[i].word = RowLetters(i - 1)
         /\ (clearResults[i].score > 0) <=> (clearResults[i].word \in Words)
         /\ clearResults[i].word \notin Words => clearResults[i].score = 0

\* C9 witness: an evaluated board with a valid row and an invalid row.
C9_Witness ==
  /\ phase = "clearing"
  /\ \E i, j \in 1 .. Len(clearResults) :
       /\ clearResults[i].valid /\ clearResults[i].score > 0
       /\ ~clearResults[j].valid /\ clearResults[j].score = 0

\* The multipliers of C10 for lengths 2..7 (1, 1.5, 2, 3, 4, 6), doubled.
ClaimMultiplier_x2(n) ==
  CASE n = 2 -> 2 [] n = 3 -> 3 [] n = 4 -> 4 [] n = 5 -> 6 [] n = 6 -> 8 [] n = 7 -> 12

\* C10: scoreWord(word) is the sum of the letters' point values times the
\* multiplier of the word's length, rounded to the nearest integer (halves
\* up); the row AT scores 2 when AT is in the word list and 0 when it is not.
C10_ScoreWord ==
  /\ (wordScore >= 0 /\ Len(word) \in 2 .. 7) =>
       LET twice == letterSum(word) * ClaimMultiplier_x2(Len(word))
       IN 2 * wordScore = twice + (twice % 2)
  /\ (wordScore >= 0 /\ word = <<"A", "T">>) => wordScore = 2
  /\ (rowPoints >= 0 /\ word = <<"A", "T">>) =>
       rowPoints = IF dictLoaded /\ <<"A", "T">> \in Words THEN 2 ELSE 0

\* C10 witness: the row AT scored with AT in the word list.
C10_Witness == word = <<"A", "T">> /\ dictLoaded /\ wordScore = 2 /\ rowPoints = 2

\* Every cell below the hand holds a tile.
FullBelowHand(g) == \A p \in Cells : p[1] >= 1 => g[p] # NoTile

\* The place, letter and flags of every tile (the drag's reference aside).
Tiles(g) == Unmark(g)

\* A tap is in progress: the pointer went down on the hand tile of column col
\* and has not moved beyond the drag threshold.
TapPending(col) == drag # NoDrag /\ ~isDragging /\ drag.originPos = <<0, col>>

\* C11: tapping a hand tile while no cell below the hand is empty is a no-op:
\* no tile changes cell or flags, and no refill timer is scheduled.
C11_TapOnFullBoardNoOp ==
  [][(PointerUp /\ phase = "playing" /\ FullBelowHand(grid)
        /\ \E col \in Cols(0) : TapPending(col)) =>
       /\ Tiles(grid') = Tiles(grid)
       /\ refillTimers' = refillTimers]_vars

\* C11 witness: a tap in progress on a hand tile, in phase playing, with every
\* cell below the hand filled and a hand slot empty.
C11_Witness ==
  /\ phase = "playing" /\ enabled /\ FullBelowHand(grid)
  /\ \E col \in Cols(0) : TapPending(col) /\ grid[<<0, col>>] # NoTile
  /\ \E col \in Cols(0) : grid[<<0, col>>] = NoTile

\* One of the two cells above pos, in the row directly above, holds a tile.
ParentOccupied(g, pos) ==
  \E q \in Cells : q[1] = pos[1] - 1 /\ q[2] \in {pos[2], pos[2] + 1} /\ g[q] # NoTile

\* C12: with input enabled, a pointer-down on a tile below the hand that is
\* covered or not settled creates no drag state and changes nothing; a
\* pointer-down on a hand tile always creates the drag state for that tile,
\* and moves no tile.
C12_CoveredOrUnsettledRejected ==
  [][\A pt \in PointerSpots :
       LET pos == pixelToGrid(pt[1], pt[2])
       IN (PointerDown(pt) /\ enabled /\ pos # NoPos /\ grid[pos] # NoTile) =>
            /\ (pos[1] >= 1 /\ (~grid[pos].settled \/ ParentOccupied(grid, pos))) =>
                 (drag' = drag /\ grid' = grid /\ isDragging' = isDragging)
            /\ pos[1] = 0 =>
                 (drag' # NoDrag /\ drag'.originPos = pos /\ ~isDragging'
                  /\ grid'[pos].mark /\ Tiles(grid') = Tiles(grid))]_vars

\* C12 witness: input is enabled, no drag exists, and the tile of the
\* bottom-row pointer cell is covered or unsettled, so a pointer-down on it
\* is rejected.
C12_Witness ==
  LET pos == <<NUM_ROWS - 1, 1>>
  IN /\ enabled /\ drag = NoDrag /\ grid[pos] # NoTile
     /\ grid[pos].settled /\ ParentOccupied(grid, pos)

C14_PhaseEdges ==
  [][phase' # phase =>
       \/ /\ phase \in {"start", "roundEnd"} /\ phase' = "playing"
          /\ \E pt \in PointerSpots : PointerDown(pt)
       \/ phase = "playing" /\ phase' = "clearing" /\ ~clearTimer /\ clearTimer'
       \/ phase = "clearing" /\ phase' \in {"playing", "roundEnd"} /\ clearTimer /\ ~clearTimer'
       \/ phase = "playing" /\ phase' = "roundEnd" /\ timeLeft' = 0 /\ timeLeft > 0]_vars

\* C14 witness: a round that went through playing, clearing and playing again
\* has ended.
C14_Witness == phase = "roundEnd" /\ score > 0 /\ timeLeft = 0

\* A step of a timer or frame callback: the countdown, a hand refill, the
\* gravity frame, an intro step or the clear-display timeout.
TimerStep ==
  \/ UpdateTimer \/ Frame \/ CascadeStep \/ CascadeEnd \/ ClearTimeout
  \/ \E col \in Cols(0) : Refill(col)

\* C15: in phase roundEnd no timer or frame callback changes the board, the
\* score, timeLeft or the phase.
C15_NothingAfterRoundEnd ==
  [][(phase = "roundEnd" /\ TimerStep) => UNCHANGED << grid, score, timeLeft, phase >>]_vars

\* C15 witness: the round has ended and a refill callback is pending for an
\* empty hand slot (a drag released after the end scheduled it).
C15_Witness ==
  phase = "roundEnd" /\ \E col \in refillTimers : grid[<<0, col>>] = NoTile

\* A pointer-move or pointer-up event.
MoveOrUp == PointerUp \/ \E pt \in PointerSpots : PointerMove(pt)

\* C16: while the phase is clearing or roundEnd, a pointer-move or pointer-up
\* neither removes a tile from the board nor places one on it.
C16_NoInputMutation ==
  [][(phase \in {"clearing", "roundEnd"} /\ MoveOrUp) =>
       filledCount(grid') = filledCount(grid)]_vars

\* C17: the countdown interval is running whenever the phase is clearing.
C17_CountdownDuringClearing == phase = "clearing" => intervals > 0

\* C18: when the clear-display timeout fires, the board afterwards holds
\* exactly the tiles of a full hand row (every cell below the hand empty),
\* clearResults is empty, and the phase is playing with input enabled if
\* timeLeft > 0, roundEnd with input disabled if timeLeft is 0.
C18_ClearCallback ==
  [][ClearTimeout =>
       /\ \A p \in Cells : (grid'[p] # NoTile) <=> (p[1] = 0)
       /\ filledCount(grid') = ROW_WIDTHS(0)
       /\ clearResults' = << >>
       /\ IF timeLeft > 0 THEN phase' = "playing" /\ enabled'
                          ELSE phase' = "roundEnd" /\ ~enabled']_vars

\* C18 witness: the clear-display timeout has fired after an evaluation that
\* scored: phase playing again, the hand row full and nothing below it.
C18_Witness ==
  /\ phase = "playing" /\ enabled /\ score > 0 /\ clearResults = << >> /\ ~clearTimer
  /\ \A p \in Cells : (grid[p] # NoTile) <=> (p[1] = 0)

\* C19: for every hand column at most one refill timeout is pending, and it
\* is the one the Map refillTimers holds the handle of (so the next schedule,
\* stopTimers or startRound cancels it).
C19_OneRefillPending ==
  \A c \in Cols(0) :
    /\ refillPending[c] <= 1
    /\ (refillPending[c] = 1) <=> (c \in refillTimers)

\* C19 witness: a refill is pending for a column whose hand slot holds a tile
\* again, and a tap on that tile is in progress with room below the hand:
\* its release schedules the column's refill a second time.
C19_Witness ==
  \E c \in Cols(0) :
    /\ phase = "playing" /\ refillPending[c] = 1 /\ TapPending(c)
    /\ grid[<<0, c>>] # NoTile /\ ~FullBelowHand(grid)

\* C20: a refill callback that fires when the phase is not playing or when its
\* hand slot is occupied changes nothing on the board (nor phase or score);
\* and no refill callback changes a hand cell that holds a tile.
C20_RefillRechecks ==
  [][\A col \in Cols(0) :
       Refill(col) =>
         /\ (phase # "playing" \/ grid[<<0, col>>] # NoTile) =>
              UNCHANGED << grid, phase, score, clearResults >>
         /\ \A p \in Cells : (p[1] = 0 /\ grid[p] # NoTile) => grid'[p] = grid[p]]_vars

\* C20 witness: in phase playing, with no drag in progress, a refill is
\* pending for a hand slot that holds a tile (a tile was dropped into the
\* slot after the refill was scheduled).
C20_Witness ==
  /\ phase = "playing" /\ drag = NoDrag
  /\ \E col \in Cols(0) : refillPending[col] > 0 /\ grid[<<0, col>>] # NoTile

\* Every empty hand slot of g other than column skip has a refill pending.
EmptySlotsPending(g, pending, skip) ==
  \A c \in Cols(0) \ {skip} : g[<<0, c>>] = NoTile => pending[c] > 0

\* C21: in phase playing, the release of a tile dragged out of the hand leaves
\* every empty hand slot with a refill pending (so that it is filled after the
\* refill delay), given that the other empty slots had one before.
C21_EmptySlotHasRefill ==
  [][(Release /\ phase = "playing" /\ drag.originPos[1] = 0
        /\ EmptySlotsPending(grid, refillPending, drag.originPos[2])) =>
       EmptySlotsPending(grid', refillPending', 0 - 1)]_vars

\* p comes before q in row-major order.
RowMajorBefore(p, q) == p[1] < q[1] \/ (p[1] = q[1] /\ p[2] < q[2])

\* The first empty cell below the hand in row-major order, given there is one.
FirstEmptyBelow(g) ==
  CHOOSE p \in Cells :
    /\ p[1] >= 1 /\ g[p] = NoTile
    /\ \A q \in Cells : (q[1] >= 1 /\ g[q] = NoTile /\ q # p) => RowMajorBefore(p, q)

\* C22: releasing a tap on a hand tile in phase playing, with an empty cell
\* below the hand, moves that tile to the first empty cell of rows 1.. in
\* row-major order, unsettled; the vacated column has exactly one refill
\* pending afterwards; every other cell keeps its content.
C22_TapDropsToFirstEmpty ==
  [][\A col \in Cols(0) :
       (PointerUp /\ phase = "playing" /\ TapPending(col) /\ grid[<<0, col>>] # NoTile
          /\ ~FullBelowHand(grid)) =>
         LET to == FirstEmptyBelow(grid)
         IN /\ grid'[<<0, col>>] = NoTile
            /\ grid'[to] # NoTile /\ grid'[to].letter = grid[<<0, col>>].letter
            /\ grid'[to].pos = to /\ ~grid'[to].settled
            /\ col \in refillTimers' /\ refillPending'[col] = 1
            /\ \A c \in Cols(0) \ {col} : refillPending'[c] = refillPending[c]
            /\ \A p \in Cells \ {to, <<0, col>>} : Tiles(grid')[p] = Tiles(grid)[p]]_vars

\* C22 witness: a tap is in progress on a hand tile in phase playing while
\* cell (1,0) is filled and a later cell below the hand is empty, so the scan
\* has to pass over a filled cell.
C22_Witness ==
  /\ phase = "playing" /\ grid[<<1, 0>>] # NoTile /\ ~FullBelowHand(grid)
  /\ \E col \in Cols(0) : TapPending(col) /\ grid[<<0, col>>] # NoTile

\* C23: no gravity step (Board.applyGravity or the frame's processGravity)
\* changes a hand cell that holds a tile.
C23_HandNeverFalls ==
  [][(ApplyGravity \/ Frame) =>
       \A p \in Cells : (p[1] = 0 /\ grid[p] # NoTile) => grid'[p] = grid[p]]_vars

\* The cell of g that holds the tile named letter, or NoPos.
CellOf(g, letter) ==
  IF \E p \in Cells : g[p] # NoTile /\ g[p].letter = letter
  THEN CHOOSE p \in Cells : g[p] # NoTile /\ g[p].letter = letter
  ELSE NoPos

\* C26: in one gravity step (Board.applyGravity or the frame's
\* processGravity) every tile stays on the board and ends in its row or in
\* the row directly below: no tile moves twice and none skips a row.
C26_OneRowPerStep ==
  [][(ApplyGravity \/ Frame) =>
       \A p \in Cells :
         grid[p] # NoTile =>
           LET q == CellOf(grid', grid[p].letter)
           IN q # NoPos /\ q[1] \in {p[1], p[1] + 1}]_vars

\* C26 witness: a tile that started in the hand row has fallen one row and
\* has a free fall target below it: it was not moved on in the same step.
C26_Witness ==
  \E p \in Cells, q \in Cells :
    /\ p[1] = 0 /\ q[1] = 1 /\ grid[q] # NoTile /\ grid[q].letter = TileName(p)
    /\ \E i \in 1 .. Len(fallTargets(q)) : grid[fallTargets(q)[i]] = NoTile

\* The members of a sequence.
Range(seq) == { seq[i] : i \in 1 .. Len(seq) }

\* C27: when a frame's gravity step vacates a cell below the hand, one of the
\* fall targets of that cell was empty before and holds a tile afterwards.
C27_FallsOntoFallTarget ==
  [][(Frame /\ phase = "playing") =>
       \A p \in Cells :
         (p[1] >= 1 /\ grid[p] # NoTile /\ grid'[p] = NoTile) =>
           \E q \in Range(fallTargets(p)) : grid[q] = NoTile /\ grid'[q] # NoTile]_vars

\* The in-range ones of (r+1, c-1) and (r+1, c), in that order.
TargetsExpected(pos) ==
  SelectSeq(<< <<pos[1] + 1, pos[2] - 1>>, <<pos[1] + 1, pos[2]>> >>,
            LAMBDA t : t \in Cells)

\* C28: for the position of every tile on the board, fallTargets is empty in
\* the last row and otherwise the in-range members of (r+1, c-1), (r+1, c) in
\* that order, one or two of them; and every position below row 0 is a fall
\* target of exactly two positions of the row above it.
C28_FallTargets ==
  /\ \A p \in Cells :
       grid[p] # NoTile =>
         LET pos == grid[p].pos
             t == fallTargets(pos)
         IN IF pos[1] = NUM_ROWS - 1 THEN t = << >>
            ELSE /\ t = TargetsExpected(pos)
                 /\ Len(t) \in {1, 2}
                 /\ \A i \in 1 .. Len(t) : t[i] \in Cells /\ t[i][1] = pos[1] + 1
                 /\ Len(t) = 2 => t[1][2] < t[2][2]
  /\ \A q \in Cells :
       q[1] >= 1 =>
         Cardinality({ p \in Cells : p[1] = q[1] - 1 /\ q \in Range(fallTargets(p)) }) = 2

\* C28 witness: after a gravity step, a tile that has moved sits at a row end
\* with one fall target, another tile has two, and a tile is in the last row.
C28_Witness ==
  /\ \E p \in Cells : /\ grid[p] # NoTile /\ grid[p].letter # TileName(p)
                       /\ Len(fallTargets(grid[p].pos)) = 1
  /\ \E p \in Cells : grid[p] # NoTile /\ Len(fallTargets(grid[p].pos)) = 2
  /\ \E p \in Cells : grid[p] # NoTile /\ p[1] = NUM_ROWS - 1

\* The intro is playing: the round has started and the timeout chain of
\* showCascadeLetters has not finished.
Intro == phase = "playing" /\ cascadeTimer # "none"

\* Exactly the hand cells of g hold a tile.
HandOnly(g) == \A p \in Cells : (g[p] # NoTile) <=> (p[1] = 0)

\* C24: a tap in phase start or roundEnd sets score to 0 and timeLeft to the
\* round duration, empties the board (but for the first intro letter) and
\* starts the intro with no countdown running; during the intro input is
\* disabled, timeLeft does not change, a pointer-down changes nothing and the
\* intro is left only by its last timeout; that timeout leaves exactly the
\* hand row filled, enables input and starts the countdown at the full
\* duration with score 0.
C24_RestartAndIntro ==
  [][/\ (phase \in {"start", "roundEnd"} /\ \E pt \in PointerSpots : PointerDown(pt)) =>
          /\ score' = 0 /\ timeLeft' = ROUND_DURATION_S /\ Intro' /\ ~enabled'
          /\ intervals' = 0
          /\ \A p \in Cells : grid'[p] # NoTile => p = <<0, 0>>
     /\ Intro =>
          /\ ~enabled /\ intervals = 0 /\ timeLeft' = timeLeft /\ score' = score
          /\ (\E pt \in PointerSpots : PointerDown(pt)) => UNCHANGED << gameVars, inputVars >>
          /\ Intro' \/ CascadeEnd
     /\ (Intro /\ CascadeEnd) =>
          /\ HandOnly(grid') /\ filledCount(grid') = ROW_WIDTHS(0)
          /\ enabled' /\ intervals' = 1 /\ phase' = "playing"
          /\ timeLeft' = ROUND_DURATION_S /\ score' = 0]_vars

\* C24 witness: the last timeout of an intro is pending while a drag begun in
\* an earlier round still exists (so the intro follows a restart from
\* roundEnd) and all intro letters are placed.
C24_Witness ==
  Intro /\ cascadeTimer = "end" /\ drag # NoDrag /\ cascadeIndex = ROW_WIDTHS(0)

\* C25: the high-score list is in descending order and holds at most
\* MAX_SCORES entries; it changes only in the step that ends a round, and only
\* when the round's score is above 0; that step puts the score into the list
\* exactly once (the list keeps its other entries, the smallest of all is
\* dropped when the cap is exceeded).
IsDescending(list) == \A i \in 1 .. Len(list) - 1 : list[i] >= list[i + 1]
Count(list, v) == Cardinality({ i \in 1 .. Len(list) : list[i] = v })
RECURSIVE SeqSum(_)
SeqSum(list) == IF list = << >> THEN 0 ELSE Head(list) + SeqSum(Tail(list))
Smallest(list) == CHOOSE v \in Range(list) : \A w \in Range(list) : v <= w
RoundEnds == phase # "roundEnd" /\ phase' = "roundEnd"
C25_HighScores ==
  [][/\ IsDescending(highScores) /\ IsDescending(highScores')
     /\ Len(highScores) <= MAX_SCORES /\ Len(highScores') <= MAX_SCORES
     /\ highScores' # highScores => (RoundEnds /\ score > 0)
     /\ RoundEnds => score' = score
     /\ (RoundEnds /\ score > 0) =>
          LET all == Append(highScores, score)
          IN /\ \A v \in Range(highScores') : Count(highScores', v) <= Count(all, v)
             /\ IF Len(all) <= MAX_SCORES
                THEN /\ Len(highScores') = Len(all)
                     /\ SeqSum(highScores') = SeqSum(all)
                ELSE /\ Len(highScores') = MAX_SCORES
                     /\ SeqSum(highScores') = SeqSum(all) - Smallest(all)]_vars
C25_Witness == phase = "roundEnd" /\ score = 2 /\ highScores = << 3, 2 >>

\* C29: right after a gravity step in phase playing, a settled tile in a row
\* between the hand and the bottom row has no free cell in the row below it,
\* and every tile of the bottom row is settled.
GravityStep == Frame /\ phase = "playing"
TileValue(letter) ==
  IF letter = "Qu" THEN SCRABBLE_VALUES("Q") + SCRABBLE_VALUES("U")
  ELSE SCRABBLE_VALUES(letter)
RECURSIVE TileSum(_, _)
TileSum(r, c) ==
  IF c >= ROW_WIDTHS(r) THEN 0 ELSE TileValue(grid[<<r, c>>].letter) + TileSum(r, c + 1)
HasQu(r) == \E c \in Cols(r) : grid[<<r, c>>] # NoTile /\ grid[<<r, c>>].letter = "Qu"

\* C30: a valid full row that contains a Qu tile scores the sum of its tiles'
\* values (Qu = 11) times the multiplier of the row's tile count, rounded.
C30_QuRowScore ==
  phase = "clearing" =>
    \A i \in 1 .. Len(clearResults) :
      LET r == clearResults[i].row
          twice == TileSum(r, 0) * ClaimMultiplier_x2(ROW_WIDTHS(r))
      IN (clearResults[i].valid /\ HasQu(r)) =>
           2 * clearResults[i].score = twice + (twice % 2)

\* C31: clearResults is non-empty only in phase clearing; in phase clearing
\* it holds one entry per row, the hand row included, in row order; and the
\* evaluation that enters clearing records for each row its index, the word
\* read from it, whether the word list holds it, and its points.
Evaluation == phase # "clearing" /\ phase' = "clearing"
C31_ClearResults ==
  [][/\ clearResults # << >> => phase = "clearing"
     /\ clearResults' # << >> => phase' = "clearing"
     /\ phase' = "clearing" =>
          /\ Len(clearResults') = NUM_ROWS
          /\ \A i \in 1 .. NUM_ROWS : clearResults'[i].row = i - 1
     /\ Evaluation =>
          \A i \in 1 .. NUM_ROWS :
            LET e == clearResults'[i]
            IN /\ e.word = readRow(grid', i - 1)
               /\ Len(e.word) >= ROW_WIDTHS(i - 1)
               /\ e.valid = (dictLoaded /\ e.word \in Words)
               /\ e.score = IF e.valid THEN scoreWord(e.word) ELSE 0]_vars
C31_Witness ==
  /\ phase = "clearing" /\ Len(clearResults) = NUM_ROWS
  /\ clearResults[1].row = 0 /\ ~clearResults[1].valid
  /\ clearResults[NUM_ROWS].valid /\ clearResults[NUM_ROWS].score > 0

\* The pixel of the probe lies inside the tile square of cell p.
InSquare(p) ==
  LET L == probe.layout
      tl == gridToPixel2(L, p)
  IN /\ probe.px2 >= tl[1] /\ probe.px2 < tl[1] + 2 * L.tileSize
     /\ probe.py2 >= tl[2] /\ probe.py2 < tl[2] + 2 * L.tileSize

\* C32: for every layout with integer tile size and padding, pixelToGrid
\* returns p for every pixel inside the tile square of p (its top-left pixel
\* gridToPixel(p) included) and no position for every other pixel (a gap
\* between tiles, or outside all rows).
C32_PixelRoundTrip ==
  (probe # NoProbe /\ probe.pos # Pending) =>
    /\ \A p \in Cells : InSquare(p) => probe.pos = p
    /\ (~ \E p \in Cells : InSquare(p)) => probe.pos = NoPos
\* C32 witness: a pixel in the gap between the first two tiles of row 1,
\* under a layout in which that row starts on a half pixel.
C32_Witness ==
  /\ probe # NoProbe /\ probe.pos = NoPos
  /\ rowX2(probe.layout, 1) % 2 = 1
  /\ probe.py2 = rowY2(probe.layout, 1)
  /\ probe.px2 = gridToPixel2(probe.layout, <<1, 0>>)[1] + 2 * probe.layout.tileSize
  /\ probe.px2 < gridToPixel2(probe.layout, <<1, 1>>)[1]

\* Every tile's pos field is the cell that holds it.
PosIsCell(g) == \A p \in Cells : g[p] # NoTile => g[p].pos = p

\* The step in which a drag crosses the threshold and picks its tile up.
PickUp == drag # NoDrag /\ ~isDragging /\ isDragging'

\* C33: for every cell that holds a tile, the tile's pos is that cell; and the
\* Board.remove of a pick-up empties the cell that holds the dragged tile.
C33_PosMatchesCell ==
  [][/\ PosIsCell(grid) /\ PosIsCell(grid')
     /\ PickUp => DragCell(grid) # NoPos]_vars

\* C34: when a drag crosses the threshold, the only cell emptied is the one
\* that holds the dragged tile at that moment, whatever happened to the board
\* since the pointer went down.
C34_PickUpEmptiesOwnCell ==
  [][PickUp => \A p \in Cells : (grid[p] # NoTile /\ grid'[p] = NoTile) => grid[p].mark]_vars

\* C35: a pointer-down that arrives while a tile is held by a drag leaves the
\* drag state as it is (the held tile stays the one the pointer-up places).
C35_PointerDownKeepsDrag ==
  [][(Held /\ \E pt \in PointerSpots : PointerDown(pt)) =>
       (drag' = drag /\ isDragging')]_vars

\* C36: timeLeft is between 0 and ROUND_DURATION_S, at least 1 in phases
\* playing and clearing and 0 in phase roundEnd; it changes only by a
\* decrement of 1 in phase playing, or by the reset of startRound.
TimeInRange(t, ph) ==
  /\ t >= 0 /\ t <= ROUND_DURATION_S
  /\ ph \in {"playing", "clearing"} => t >= 1
  /\ ph = "roundEnd" => t = 0
C36_TimeLeft ==
  [][/\ TimeInRange(timeLeft, phase) /\ TimeInRange(timeLeft', phase')
     /\ timeLeft' # timeLeft =>
          \/ phase = "playing" /\ timeLeft' = timeLeft - 1
          \/ /\ phase \in {"start", "roundEnd"} /\ phase' = "playing"
             /\ timeLeft' = ROUND_DURATION_S]_vars
C36_Witness == phase = "roundEnd" /\ timeLeft = 0 /\ score > 0

\* C37: at most one countdown interval is running, and it is the one
\* roundTimer refers to; a step that starts the countdown starts it from none.
C37_OneInterval ==
  [][/\ intervals' <= 1
     /\ roundTimer' <=> (intervals' = 1)
     /\ intervals' > intervals => intervals = 0]_vars
\* C37 witness: the countdown runs again after a clearing.
C37_Witness == phase = "playing" /\ score > 0 /\ intervals = 1 /\ roundTimer /\ timeLeft = 1

\* The points of an evaluation: the valid rows' points, doubled when every
\* row is valid.
CreditOf(results) ==
  LET points == SeqSum([i \in 1 .. Len(results) |->
                          IF results[i].valid THEN results[i].score ELSE 0])
  IN IF Len(results) > 0 /\ \A i \in 1 .. Len(results) : results[i].valid
     THEN 2 * points ELSE points

\* C38: the score changes only in an evaluation, where it grows by the
\* points credited for that board, and in startRound, which sets it to 0.
C38_ScoreMonotone ==
  [][/\ Evaluation => score' = score + CreditOf(clearResults')
     /\ score' # score =>
          \/ Evaluation /\ score' > score
          \/ phase \in {"start", "roundEnd"} /\ phase' = "playing" /\ score' = 0]_vars
\* C38 witness: the second evaluation of a round has added its points.
C38_Witness == phase = "clearing" /\ score = 4 /\ CreditOf(clearResults) = 2

\* Gravity has nothing left to do on board g: no frame changes it, every tile
\* below the hand is settled, and every tile between the hand and the bottom
\* row sits above a full row.
Quiescent(g) ==
  /\ \A dueSet \in SUBSET Ticking(g) : processGravity(g, dueSet).g = g
  /\ \A p \in Cells : (p[1] >= 1 /\ g[p] # NoTile) => g[p].settled
  /\ \A p \in Cells :
       (p[1] >= 1 /\ p[1] <= NUM_ROWS - 2 /\ g[p] # NoTile) => emptyInRow(g, p[1] + 1) = << >>

\* C39: with no input, while the phase stays playing, gravity comes to rest
\* after finitely many steps and stays at rest.
C39_GravityQuiesces == <>[](phase # "playing" \/ Quiescent(grid))
\* C39 witness: the tile that started in cell (1,0) has come to rest in the
\* bottom row of a board at rest.
C39_Witness ==
  /\ phase = "playing" /\ Quiescent(grid)
  /\ \E c \in Cols(NUM_ROWS - 1) : grid[<<NUM_ROWS - 1, c>>].letter = TileName(<<1, 0>>)

\* C40: every round that has started reaches phase roundEnd, and a clearing
\* is followed by phase playing with the countdown running or by roundEnd.
C40_RoundEnds ==
  /\ (phase = "playing") ~> (phase = "roundEnd")
  /\ (phase = "clearing") ~> (phase = "roundEnd" \/ (phase = "playing" /\ intervals = 1))
\* C40 witness: a round ended with its board full and never evaluated, the
\* word list not being loaded.
C40_Witness == phase = "roundEnd" /\ isFull(grid) /\ ~dictLoaded /\ score = 0

====
